---- MODULE Spec2Model ----
(***************************************************************************)
(* Order placement, inventory deduction and the order life cycle of the    *)
(* restaurant back end (restaurant/models.py, services.py, serializers.py, *)
(* views.py).                                                              *)
(*                                                                         *)
(* The database is modelled as its committed rows plus, per request, the   *)
(* uncommitted writes of the request's transaction (READ COMMITTED with    *)
(* row locks, the PostgreSQL engine of config/settings/prod.py): a         *)
(* transaction sees its own writes, other transactions see only committed  *)
(* rows, select_for_update() blocks while another transaction holds the    *)
(* row lock, and a rollback discards the writes and releases the locks.    *)
(* Money is counted in cents.                                              *)
(***************************************************************************)
EXTENDS Integers, Sequences, FiniteSets, TLC

VARIABLES
    quantity,   \* committed InventoryItem.quantity, per stocked menu item
    rowLock,    \* holder of the row lock of each InventoryItem row
    orders,     \* committed Order rows (with their lines), per order
    pc,         \* position of each placement request in perform_create
    lines,      \* validated 'lines' payload of each placement request
    txOrder,    \* the request's Order row inside its open transaction
    txWrites,   \* the request's uncommitted InventoryItem.quantity writes
    k,          \* index of the line process_order is working on
    err,        \* the InventoryError raised by process_order, if any
    response,   \* the HTTP response of the request
    fulfilled,  \* history: orders whose fulfillment transaction committed
    pricedAt,   \* history: the prices each order's recalculate_total() read
    caller,     \* who called process_order for the request
    inst,       \* an InventoryItem instance held in memory by a ledger caller
    call,       \* the last decrease()/increase() call on inst and what it raised
    reservations, \* committed Reservation rows
    rpc,        \* position of each reservation request
    rreq,       \* the reservation request being handled
    rinst,      \* the Reservation instance the request's serializer holds
    rresp,      \* the HTTP response of the reservation request
    avail,      \* the last check_table_availability call and its result
    prices,     \* committed MenuItem.price, per MenuItem row
    mresp,      \* the last request on /menu/ and its response
    oinst,      \* an Order instance held in memory by a caller of mark_status
    ocall,      \* the last mark_status() call on oinst and what it raised
    managers,   \* the users in the group 'Managers'
    mcall,      \* the last request on a /managers/ endpoint and its response
    oresp,      \* the last request on /orders/ and what it returned
    tcall       \* the last recalculate_total() call on oinst and what it returned

vars == <<quantity, rowLock, orders, pc, lines, txOrder, txWrites, k, err,
          response, fulfilled, pricedAt, caller, inst, call,
          reservations, rpc, rreq, rinst, rresp, avail,
          prices, mresp, oinst, ocall, managers, mcall, oresp, tcall>>

orderVars == <<orders, pc, lines, txOrder, txWrites, k, err, response, fulfilled,
               pricedAt, caller>>
ledgerVars == <<inst, call>>
resvVars == <<reservations, rpc, rreq, rinst, rresp, avail>>
menuVars == <<prices, mresp>>
statusVars == <<oinst, ocall>>
\* the variables outside order placement and the stock ledger
groupVars == <<managers, mcall>>
\* the variables of the manager endpoints, of the reads of orders and of the
\* calls of recalculate_total
deskVars == <<groupVars, oresp, tcall>>
restVars == <<resvVars, menuVars, statusVars, deskVars>>

----------------------------------------------------------------------------
(* Bounds of the model *)

\* largest quantity of one submitted order line
MaxQty == 2
\* increase() is not called once it would lift an instance above this
MaxStock == 3
\* reservation times are the instants 0..MaxTime
MaxTime == 2

----------------------------------------------------------------------------
(* The data the model runs on *)

\* MenuItem rows; "jollof" has no InventoryItem row
MenuItems == {"banku", "salad", "jollof"}
Stocked == {"banku", "salad"}
\* MenuItem.price in cents
price == [i \in MenuItems |->
            IF i = "banku" THEN 700 ELSE IF i = "salad" THEN 900 ELSE 1999]
\* InventoryItem.quantity when the requests start
InitStock == [i \in Stocked |-> IF i = "banku" THEN 2 ELSE 1]

\* concurrent order-placement requests; each creates the order of the same name
Requests == {"r1", "r2"}
NoOne == "nobody"

Status == {"PENDING", "PROCESSING", "COMPLETED", "CANCELLED"}
\* no row with that primary key
NoRow == [status |-> "ABSENT", total_amount |-> 0, lines |-> <<>>]
NoResponse == [code |-> 0, status |-> "", detail |-> ""]
NoCall == [op |-> "", error |-> ""]
\* the amounts decrease() and increase() are called with
Amounts == -1..MaxQty

Line == [menu_item : MenuItems, quantity : 1..MaxQty]
\* payloads that pass OrderLineSerializer: an active menu item, quantity >= 1;
\* the empty list is a possible payload as well
Payloads == {<<>>} \cup {<<a>> : a \in Line} \cup {<<a, b>> : a, b \in Line}

\* Table rows, time instants, users
Tables == {"T1", "T2"}
Times == 0..MaxTime
Users == {"guest", "manager"}
\* the handlers of reservation requests
ResvSlots == {"q1", "q2"}
\* primary keys of the Reservation rows present at the start
ResvIds == {1, 2}
\* the Reservation rows present at the start: Table T1 is booked [0,1) and [1,2)
SeedReservations ==
    {[id |-> 1, table |-> "T1", start_time |-> 0, end_time |-> 1, user |-> "guest"],
     [id |-> 2, table |-> "T1", start_time |-> 1, end_time |-> 2, user |-> "guest"]}
\* no instance (None)
NoReservation == [id |-> 0, table |-> "", start_time |-> 0, end_time |-> 0, user |-> ""]
Fields == {"table", "start_time", "end_time"}
NoRequest == [kind |-> "", id |-> 0, user |-> "", has |-> {},
              table |-> "", start_time |-> 0, end_time |-> 0]
NoCheck == [table |-> "", start_time |-> 0, end_time |-> 0, exclude |-> 0,
            called |-> FALSE, result |-> FALSE]

\* the data of a reservation request that carries the fields has; a field that
\* is not sent has no value
Attrs(kind, id, u, has, t, s, e) ==
    [kind |-> kind, id |-> id, user |-> u, has |-> has,
     table |-> IF "table" \in has THEN t ELSE "",
     start_time |-> IF "start_time" \in has THEN s ELSE 0,
     end_time |-> IF "end_time" \in has THEN e ELSE 0]

\* POST, PUT and PATCH requests on reservations by authenticated users; POST and
\* PUT carry every required field, PATCH any subset
ResvRequests ==
    {Attrs("create", 0, u, Fields, t, s, e) :
        u \in Users, t \in Tables, s \in Times, e \in Times}
    \cup
    {Attrs("update", id, u, Fields, t, s, e) :
        id \in ResvIds, u \in Users, t \in Tables, s \in Times, e \in Times}
    \cup
    UNION {{Attrs("partial_update", id, u, has, t, s, e) :
              id \in ResvIds, u \in Users, t \in Tables, s \in Times, e \in Times} :
           has \in SUBSET Fields}

\* MenuItem names a manager can add to the menu
NewItems == {"waakye"}
\* who sends a request: nobody logged in, a customer, a member of Managers
Requesters == {"anonymous", "guest", "manager"}
\* the members of the group 'Managers' at the start
Managers == {"manager"}
\* the actions of MenuItemViewSet and their HTTP methods
MenuActions == {"list", "retrieve", "create", "update", "partial_update", "destroy"}
SAFE_METHODS == {"GET", "HEAD", "OPTIONS"}
\* the prices a request on /menu/ carries, in cents
PriceInputs == {0, 1200}
\* the MenuItem rows the requests on /menu/{item}/ name
MenuTargets == {"salad"} \cup NewItems
NoMenuResponse == [user |-> "", action |-> "", item |-> "", price |-> 0, code |-> 0]
\* recalculate_total() has not run on the order
NotPriced == << >>
\* no Order instance
NoInstance == [id |-> "", row |-> NoRow]
NoStatusCall == [status |-> "", error |-> ""]
\* the User rows, and the primary keys a /managers/users/{id}/ request names
AllUsers == {"guest", "manager", "waiter"}
UserIds == AllUsers \cup {"unknown"}
\* the endpoints under /managers/
ReadEndpoints == {"list_users", "daily_sales_report", "stock_alerts_report"}
NoManagerCall == [user |-> "", endpoint |-> "", target |-> "", code |-> 0,
                  before |-> {}]
\* the actions of OrderViewSet on persisted orders
OrderActions == {"list", "retrieve", "update", "partial_update", "destroy",
                 "complete", "cancel"}
NoOrderResponse == [user |-> "", action |-> "", order |-> "", code |-> 0,
                    returned |-> {}, modified |-> {}]
\* Order.user: the user who placed each order
owner == [o \in Requests |-> IF o = "r1" THEN "guest" ELSE "waiter"]
NoTotalCall == [id |-> "", total |-> 0, prices |-> << >>, again |-> FALSE]
\* the values mark_status() is called with; "DELIVERED" is no Order.Status
StatusArgs == Status \cup {"DELIVERED"}

RECURSIVE SumSeq(_)
SumSeq(s) == IF s = <<>> THEN 0 ELSE Head(s) + SumSeq(Tail(s))

----------------------------------------------------------------------------
(* models.py *)

\* line_total with the price the menu item had at the start
line_total_listed(line) == price[line.menu_item] * line.quantity

\* OrderLine.line_total
line_total(line) == prices[line.menu_item] * line.quantity

\* the total Order.recalculate_total computes from the order's lines
recalculate_total(ls) == SumSeq([j \in 1..Len(ls) |-> line_total(ls[j])])

\* create() that leaves total_amount at the field's default
create_total_zero(ls) == 0

\* the total OrderSerializer.create stores on the new order
create_total(ls) ==
    SumSeq([j \in 1..Len(ls) |-> prices[ls[j].menu_item] * ls[j].quantity])

\* mark_status() that leaves the status as it is
mark_status_kept(row, status) == row

\* Order.mark_status: writes the status field only
mark_status(row, status) ==
    IF status \notin Status THEN row ELSE [row EXCEPT !.status = status]

\* the error Order.mark_status raises for status, "" if none
mark_status_error(status) == IF status \notin Status THEN "ValueError" ELSE ""

\* save() without update_fields: every field of the instance is written
save_all(row, instance, update_fields) ==
    [status |-> instance.status, total_amount |-> instance.total_amount,
     lines |-> row.lines]

\* instance.save(update_fields=...): the Order row after the named fields of
\* the instance have been written; the lines are rows of another table
save(row, instance, update_fields) ==
    [status |-> IF "status" \in update_fields THEN instance.status ELSE row.status,
     total_amount |-> IF "total_amount" \in update_fields
                      THEN instance.total_amount ELSE row.total_amount,
     lines |-> row.lines]

\* decrease() with "amount < 0" for "amount <= 0"
decrease_error_zero(q, amount) ==
    IF amount < 0 THEN "InvalidAmount"
    ELSE IF amount > q THEN "InsufficientStock"
    ELSE ""

\* decrease() without the "amount > self.quantity" check
decrease_error_unchecked(q, amount) == IF amount <= 0 THEN "InvalidAmount" ELSE ""

\* the error InventoryItem.decrease raises for (quantity, amount), "" if none
decrease_error(q, amount) ==
    IF amount <= 0 THEN "InvalidAmount"
    ELSE IF amount > q THEN "InsufficientStock"
    ELSE ""

\* decrease() that takes one unit whatever the amount
decrease_one(q, amount) == IF decrease_error(q, amount) = "" THEN q - 1 ELSE q

\* InventoryItem.decrease: the instance's quantity after the call
decrease(q, amount) == IF decrease_error(q, amount) = "" THEN q - amount ELSE q

\* increase() with "amount < 0" for "amount <= 0"
increase_error_zero(amount) == IF amount < 0 THEN "InvalidAmount" ELSE ""

\* the error InventoryItem.increase raises for amount, "" if none
increase_error(amount) == IF amount <= 0 THEN "InvalidAmount" ELSE ""

\* InventoryItem.increase: the instance's quantity after the call
increase(q, amount) == IF increase_error(amount) = "" THEN q + amount ELSE q

----------------------------------------------------------------------------
(* The transaction of a request *)

\* the quantity the transaction of r reads for item i
Visible(r, i) == IF i \in DOMAIN txWrites[r] THEN txWrites[r][i] ELSE quantity[i]

\* a plain get(): the row is read without waiting for its lock
select_unlocked(r, i) == TRUE

\* select_for_update() returns: nobody else holds the row lock
select_for_update(r, i) == rowLock[i] \in {NoOne, r}

\* the row locks after the transaction of r has ended or rolled back
Released(r) == [i \in Stocked |-> IF rowLock[i] = r THEN NoOne ELSE rowLock[i]]

\* process_order without transaction.atomic: the deductions made so far stay
rollback_nothing(r) == txWrites[r]

\* the writes of r that remain after process_order's transaction.atomic block
\* is left by an exception
rollback(r) == << >>

\* the InventoryItem rows after the transaction of r commits
Committed(r) == [i \in Stocked |-> Visible(r, i)]

\* r waits in select_for_update() for a row lock another request holds
Waiting(r) ==
    /\ pc[r] = "loop"
    /\ lines[r][k[r]].menu_item \in Stocked
    /\ ~select_for_update(r, lines[r][k[r]].menu_item)

\* the request r waits for
Blocker(r) == rowLock[lines[r][k[r]].menu_item]

----------------------------------------------------------------------------
InitOrders ==
    /\ quantity = InitStock
    /\ rowLock = [i \in Stocked |-> NoOne]
    /\ orders = [r \in Requests |-> NoRow]
    /\ pc = [r \in Requests |-> "idle"]
    /\ lines = [r \in Requests |-> <<>>]
    /\ txOrder = [r \in Requests |-> NoRow]
    /\ txWrites = [r \in Requests |-> << >>]
    /\ k = [r \in Requests |-> 0]
    /\ err = [r \in Requests |-> ""]
    /\ response = [r \in Requests |-> NoResponse]
    /\ fulfilled = {}
    /\ pricedAt = [r \in Requests |-> NotPriced]
    /\ caller = [r \in Requests |-> ""]
    /\ prices = price
    /\ inst = [menu_item |-> "", quantity |-> 0]
    /\ call = NoCall

\* no reservation request is being handled
InitResvRequests ==
    /\ rpc = [q \in ResvSlots |-> "idle"]
    /\ rreq = [q \in ResvSlots |-> NoRequest]
    /\ rinst = [q \in ResvSlots |-> NoReservation]
    /\ rresp = [q \in ResvSlots |-> NoResponse]
    /\ avail = NoCheck

\* no request on /menu/ has been made, no Order instance is held
InitCallers ==
    /\ mresp = NoMenuResponse
    /\ oinst = NoInstance
    /\ ocall = NoStatusCall
    /\ managers = Managers
    /\ mcall = NoManagerCall
    /\ oresp = NoOrderResponse
    /\ tcall = NoTotalCall

Init ==
    /\ InitOrders
    /\ reservations = SeedReservations
    /\ InitResvRequests
    /\ InitCallers

----------------------------------------------------------------------------
(* views.py, OrderViewSet.perform_create, and services.py, process_order *)

\* POST /orders/: the serializer validates the payload, perform_create opens
\* its transaction and OrderSerializer.create inserts the order and its lines
Submit(r, payload) ==
    /\ pc[r] = "idle"
    /\ lines' = [lines EXCEPT ![r] = payload]
    /\ IF payload = <<>>
       THEN \* validate_lines: 'Provide at least one order line!'
            /\ response' = [response EXCEPT ![r] =
                              [code |-> 400, status |-> "", detail |-> "lines"]]
            /\ pc' = [pc EXCEPT ![r] = "done"]
            /\ UNCHANGED txOrder
       ELSE IF \E a, b \in 1..Len(payload) :
                  a # b /\ payload[a].menu_item = payload[b].menu_item
       THEN \* bulk_create violates unique_together (order, menu_item): the
            \* IntegrityError leaves perform_create, whose transaction rolls back
            /\ response' = [response EXCEPT ![r] =
                              [code |-> 500, status |-> "", detail |-> "IntegrityError"]]
            /\ pc' = [pc EXCEPT ![r] = "done"]
            /\ UNCHANGED txOrder
       ELSE /\ txOrder' = [txOrder EXCEPT ![r] =
                             [status |-> "PENDING",
                              total_amount |-> create_total(payload),
                              lines |-> payload]]
            /\ pc' = [pc EXCEPT ![r] = "created"]
            /\ UNCHANGED response
    /\ caller' = [caller EXCEPT ![r] = "perform_create"]
    /\ UNCHANGED <<quantity, rowLock, orders, txWrites, k, err, fulfilled, pricedAt,
                   ledgerVars, restVars>>

\* process_order is entered (a savepoint inside perform_create's transaction)
\* and loads the order's lines
process_order_enter(r) ==
    /\ pc[r] = "created"
    /\ IF txOrder[r].lines = <<>>
       THEN /\ err' = [err EXCEPT ![r] = "EmptyOrder"]
            /\ pc' = [pc EXCEPT ![r] = "raise"]
            /\ UNCHANGED k
       ELSE /\ k' = [k EXCEPT ![r] = 1]
            /\ pc' = [pc EXCEPT ![r] = "loop"]
            /\ UNCHANGED err
    /\ UNCHANGED <<quantity, rowLock, orders, lines, txOrder, txWrites, response,
                   fulfilled, pricedAt, caller,
                   ledgerVars, restVars>>

\* one iteration of process_order's loop: lock the line's InventoryItem row,
\* check the stock, deduct. order.lines has no ordering, so the rows come in
\* primary-key order, the order in which bulk_create inserted the payload
process_line(r) ==
    /\ pc[r] = "loop"
    /\ LET line == txOrder[r].lines[k[r]]
           i == line.menu_item
       IN IF i \notin Stocked
          THEN \* InventoryItem.DoesNotExist
               /\ err' = [err EXCEPT ![r] = "MissingInventoryRecord"]
               /\ pc' = [pc EXCEPT ![r] = "raise"]
               /\ UNCHANGED <<rowLock, txWrites, k>>
          ELSE /\ select_for_update(r, i)
               /\ rowLock' = [rowLock EXCEPT ![i] = r]
               /\ IF Visible(r, i) < line.quantity
                  THEN /\ err' = [err EXCEPT ![r] = "InsufficientStock"]
                       /\ pc' = [pc EXCEPT ![r] = "raise"]
                       /\ UNCHANGED <<txWrites, k>>
                  ELSE /\ txWrites' = [txWrites EXCEPT ![r] =
                              (i :> decrease(Visible(r, i), line.quantity)) @@ @]
                       /\ k' = [k EXCEPT ![r] = @ + 1]
                       /\ pc' = [pc EXCEPT ![r] =
                              IF k[r] = Len(txOrder[r].lines) THEN "mark" ELSE "loop"]
                       /\ UNCHANGED err
    /\ UNCHANGED <<quantity, orders, lines, txOrder, response, fulfilled, pricedAt, caller,
                   ledgerVars, restVars>>

\* process_order: order.mark_status(Order.Status.PROCESSING)
process_order_mark(r) ==
    /\ pc[r] = "mark"
    /\ txOrder' = [txOrder EXCEPT ![r] = mark_status(@, "PROCESSING")]
    /\ pc' = [pc EXCEPT ![r] = "recalc"]
    /\ UNCHANGED <<quantity, rowLock, orders, lines, txWrites, k, err, response,
                   fulfilled, pricedAt, caller,
                   ledgerVars, restVars>>

\* process_order: order.recalculate_total()
process_order_total(r) ==
    /\ pc[r] = "recalc"
    /\ txOrder' = [txOrder EXCEPT ![r].total_amount =
                              recalculate_total(txOrder[r].lines)]
    /\ pricedAt' = [pricedAt EXCEPT ![r] = prices]
    /\ pc' = [pc EXCEPT ![r] = "commit"]
    /\ UNCHANGED <<quantity, rowLock, orders, lines, txWrites, k, err, response,
                   fulfilled, caller, ledgerVars,
                   restVars>>

\* process_order and perform_create return: the transaction commits and the
\* response is rendered from the order instance
Commit(r) ==
    /\ pc[r] = "commit"
    /\ caller[r] = "perform_create"
    /\ quantity' = Committed(r)
    /\ orders' = [orders EXCEPT ![r] = txOrder[r]]
    /\ rowLock' = Released(r)
    /\ txWrites' = [txWrites EXCEPT ![r] = << >>]
    /\ fulfilled' = fulfilled \cup {r}
    /\ response' = [response EXCEPT ![r] =
                      [code |-> 201, status |-> txOrder[r].status, detail |-> ""]]
    /\ pc' = [pc EXCEPT ![r] = "done"]
    /\ UNCHANGED <<lines, txOrder, k, err, pricedAt, caller,
                   ledgerVars, restVars>>

\* the InventoryError leaves process_order: its atomic block rolls back to the
\* savepoint, which undoes the deductions and releases the locks taken since
process_order_raise(r) ==
    /\ pc[r] = "raise"
    /\ caller[r] = "perform_create"
    /\ txWrites' = [txWrites EXCEPT ![r] = rollback(r)]
    /\ rowLock' = Released(r)
    /\ pc' = [pc EXCEPT ![r] = "except"]
    /\ UNCHANGED <<quantity, orders, lines, txOrder, k, err, response, fulfilled,
                   pricedAt, caller,
                   ledgerVars, restVars>>

\* perform_create, except InventoryError: order.mark_status(Order.Status.CANCELLED),
\* still inside perform_create's transaction
perform_create_cancel(r) ==
    /\ pc[r] = "except"
    /\ txOrder' = [txOrder EXCEPT ![r] = mark_status(@, "CANCELLED")]
    /\ pc' = [pc EXCEPT ![r] = "reraise"]
    /\ UNCHANGED <<quantity, rowLock, orders, lines, txWrites, k, err, response,
                   fulfilled, pricedAt, caller,
                   ledgerVars, restVars>>

\* perform_create raises ValidationError: the exception leaves the
\* transaction.atomic block of perform_create, so the whole transaction (the
\* order, its lines and the status write) rolls back; the handler answers 400
perform_create_reraise(r) ==
    /\ pc[r] = "reraise"
    /\ txOrder' = [txOrder EXCEPT ![r] = NoRow]
    /\ txWrites' = [txWrites EXCEPT ![r] = << >>]
    /\ rowLock' = Released(r)
    /\ response' = [response EXCEPT ![r] =
                      [code |-> 400, status |-> "", detail |-> err[r]]]
    /\ pc' = [pc EXCEPT ![r] = "done"]
    /\ UNCHANGED <<quantity, orders, lines, k, err, fulfilled, pricedAt, caller,
                   ledgerVars, restVars>>

\* two requests wait for each other's row lock: the database aborts one of them
\* with an OperationalError, which is no InventoryError, so the whole
\* transaction rolls back and the request answers 500
DeadlockAbort(r) ==
    /\ Waiting(r)
    /\ Waiting(Blocker(r))
    /\ Blocker(Blocker(r)) = r
    /\ txOrder' = [txOrder EXCEPT ![r] = NoRow]
    /\ txWrites' = [txWrites EXCEPT ![r] = << >>]
    /\ rowLock' = Released(r)
    /\ response' = [response EXCEPT ![r] =
                      [code |-> 500, status |-> "", detail |-> "OperationalError"]]
    /\ pc' = [pc EXCEPT ![r] = "done"]
    /\ UNCHANGED <<quantity, orders, lines, k, err, fulfilled, pricedAt, caller,
                   ledgerVars, restVars>>

----------------------------------------------------------------------------
(* views.py, the manager actions of OrderViewSet *)

\* POST /orders/{pk}/complete/
complete(o) ==
    /\ orders[o].status # "ABSENT"
    /\ orders' = [orders EXCEPT ![o] = mark_status(@, "COMPLETED")]
    /\ UNCHANGED <<quantity, rowLock, pc, lines, txOrder, txWrites, k, err,
                   response, fulfilled, pricedAt, caller,
                   ledgerVars, restVars>>

\* a cancel that gives a Processing order's quantities back to the stock
cancel_restock(o) ==
    /\ orders[o].status # "ABSENT"
    /\ orders' = [orders EXCEPT ![o] = mark_status(@, "CANCELLED")]
    /\ quantity' =
          [i \in Stocked |->
             IF orders[o].status = "PROCESSING"
             THEN quantity[i]
                  + SumSeq([j \in 1..Len(orders[o].lines) |->
                              IF orders[o].lines[j].menu_item = i
                              THEN orders[o].lines[j].quantity ELSE 0])
             ELSE quantity[i]]
    /\ UNCHANGED <<rowLock, pc, lines, txOrder, txWrites, k, err,
                   response, fulfilled, pricedAt, caller,
                   ledgerVars, restVars>>

\* POST /orders/{pk}/cancel/
cancel(o) ==
    /\ orders[o].status # "ABSENT"
    /\ orders' = [orders EXCEPT ![o] = mark_status(@, "CANCELLED")]
    /\ UNCHANGED <<quantity, rowLock, pc, lines, txOrder, txWrites, k, err,
                   response, fulfilled, pricedAt, caller,
                   ledgerVars, restVars>>

----------------------------------------------------------------------------
(* models.py, InventoryItem.decrease and InventoryItem.increase called on an *)
(* instance outside order placement                                          *)

\* InventoryItem.objects.get(menu_item=i) / refresh_from_db()
load(i) ==
    /\ inst' = [menu_item |-> i, quantity |-> quantity[i]]
    /\ call' = NoCall
    /\ UNCHANGED <<quantity, rowLock, orderVars, restVars>>

\* inst.decrease(amount); save(update_fields=['quantity']) waits for the row lock
decrease_call(amount) ==
    /\ inst.menu_item # ""
    /\ call' = [op |-> "decrease", error |-> decrease_error(inst.quantity, amount)]
    /\ inst' = [inst EXCEPT !.quantity = decrease(@, amount)]
    /\ IF decrease_error(inst.quantity, amount) = ""
       THEN /\ rowLock[inst.menu_item] = NoOne
            /\ quantity' = [quantity EXCEPT ![inst.menu_item] = inst'.quantity]
       ELSE UNCHANGED quantity
    /\ UNCHANGED <<rowLock, orderVars, restVars>>

\* inst.increase(amount)
increase_call(amount) ==
    /\ inst.menu_item # ""
    /\ inst.quantity + amount <= MaxStock
    /\ call' = [op |-> "increase", error |-> increase_error(amount)]
    /\ inst' = [inst EXCEPT !.quantity = increase(@, amount)]
    /\ IF increase_error(amount) = ""
       THEN /\ rowLock[inst.menu_item] = NoOne
            /\ quantity' = [quantity EXCEPT ![inst.menu_item] = inst'.quantity]
       ELSE UNCHANGED quantity
    /\ UNCHANGED <<rowLock, orderVars, restVars>>

----------------------------------------------------------------------------
NextPlacement ==
    \/ \E r \in Requests : process_order_enter(r)
    \/ \E r \in Requests : process_line(r)
    \/ \E r \in Requests : process_order_mark(r)
    \/ \E r \in Requests : process_order_total(r)
    \/ \E r \in Requests : Commit(r)
    \/ \E r \in Requests : process_order_raise(r)
    \/ \E r \in Requests : perform_create_cancel(r)
    \/ \E r \in Requests : perform_create_reraise(r)

Next ==
    \/ \E r \in Requests, payload \in Payloads : Submit(r, payload)
    \/ NextPlacement
    \/ \E r \in Requests : DeadlockAbort(r)
    \/ \E o \in Requests : complete(o)
    \/ \E o \in Requests : cancel(o)

\* concurrent order placements and the manager actions
Spec == Init /\ [][Next]_vars

\* the placement of a one-line order, interleaved with decrease() and
\* increase() calls made on an instance outside order placement
NextLedger ==
    \/ \E line \in Line : Submit("r1", <<line>>)
    \/ NextPlacement
    \/ \E i \in Stocked : load(i)
    \/ \E amount \in Amounts : decrease_call(amount)
    \/ \E amount \in Amounts : increase_call(amount)

SpecLedger == Init /\ [][NextLedger]_vars

----------------------------------------------------------------------------
(* services.py, check_table_availability; serializers.py, ReservationSerializer; *)
(* views.py, ReservationViewSet                                                  *)

\* the filter with "<=" and ">=": touching slots count as a conflict
check_table_availability_closed(table, start_time, end_time, exclude) ==
    LET conflicts == {x \in reservations :
                        /\ x.table = table
                        /\ x.start_time <= end_time
                        /\ x.end_time >= start_time}
        kept == IF exclude # 0 THEN {x \in conflicts : x.id # exclude} ELSE conflicts
    IN kept = {}

\* check_table_availability: conflicts = Reservation.objects.filter(...), less
\* the excluded primary key if one is given (None is 0); not conflicts.exists()
check_table_availability(table, start_time, end_time, exclude) ==
    LET conflicts == {x \in reservations :
                        /\ x.table = table
                        /\ x.start_time < end_time
                        /\ x.end_time > start_time}
        kept == IF exclude # 0 THEN {x \in conflicts : x.id # exclude} ELSE conflicts
    IN kept = {}

\* ReservationSerializer.validate on the request's attrs, instance being
\* self.instance: the error it raises, "" if it returns attrs
validate(req, instance) ==
    IF /\ {"start_time", "end_time"} \subseteq req.has
       /\ req.start_time >= req.end_time
    THEN "start_time must be before end_time."
    ELSE IF Fields \subseteq req.has
    THEN IF instance = NoReservation
         THEN \* self.instance.pk with self.instance None
              "AttributeError"
         ELSE IF ~check_table_availability(req.table, req.start_time,
                                           req.end_time, instance.id)
         THEN "Table already reserved for the selected time range!"
         ELSE ""
    ELSE ""

\* the instance after the serializer has set the validated fields and the user
Updated(req, instance) ==
    [id |-> instance.id,
     table |-> IF "table" \in req.has THEN req.table ELSE instance.table,
     start_time |-> IF "start_time" \in req.has THEN req.start_time
                    ELSE instance.start_time,
     end_time |-> IF "end_time" \in req.has THEN req.end_time ELSE instance.end_time,
     user |-> req.user]

\* Reservation.clean, run by Reservation.save: the error it raises, "" if none
clean(row) ==
    IF row.start_time >= row.end_time
    THEN "Reservation end time must be after start time."
    ELSE ""

\* the primary key the database gives the next Reservation row
NewId == CHOOSE n \in 1..(Cardinality(reservations) + 1) :
            \A x \in reservations : x.id # n

\* a direct call of check_table_availability
check(table, start_time, end_time, exclude) ==
    /\ avail' = [table |-> table, start_time |-> start_time, end_time |-> end_time,
                 exclude |-> exclude, called |-> TRUE,
                 result |-> check_table_availability(table, start_time, end_time,
                                                     exclude)]
    /\ UNCHANGED <<quantity, rowLock, orderVars, ledgerVars, menuVars, statusVars,
                   deskVars,
                  
                   reservations, rpc, rreq, rinst, rresp>>

\* POST /reservations/, PUT or PATCH /reservations/{id}/: get_object() for an
\* update, then serializer.is_valid(raise_exception=True)
resv_validate(q, req) ==
    /\ rpc[q] = "idle"
    /\ req.kind # "create" => \E x \in reservations : x.id = req.id
    /\ LET instance == IF req.kind = "create" THEN NoReservation
                       ELSE CHOOSE x \in reservations : x.id = req.id
           error == validate(req, instance)
       IN /\ rreq' = [rreq EXCEPT ![q] = req]
          /\ rinst' = [rinst EXCEPT ![q] = instance]
          /\ IF error = ""
             THEN /\ rpc' = [rpc EXCEPT ![q] = "valid"]
                  /\ rresp' = [rresp EXCEPT ![q] = NoResponse]
             ELSE /\ rpc' = [rpc EXCEPT ![q] = "done"]
                  /\ rresp' = [rresp EXCEPT ![q] =
                        [code |-> IF error = "AttributeError" THEN 500 ELSE 400,
                         status |-> "", detail |-> error]]
    /\ UNCHANGED <<quantity, rowLock, orderVars, ledgerVars, menuVars, statusVars,
                   deskVars,
                   reservations, avail>>

\* a save that runs the availability check again on the rows of that moment
resv_save_rechecked(q) ==
    /\ rpc[q] = "valid"
    /\ LET row == Updated(rreq[q], rinst[q])
           free == check_table_availability(row.table, row.start_time,
                                            row.end_time, row.id)
       IN IF clean(row) # "" \/ ~free
          THEN /\ rresp' = [rresp EXCEPT ![q] =
                              [code |-> 400, status |-> "", detail |-> "conflict"]]
               /\ UNCHANGED <<reservations, rinst>>
          ELSE /\ reservations' = {x \in reservations : x.id # row.id} \cup {row}
               /\ rinst' = [rinst EXCEPT ![q] = row]
               /\ rresp' = [rresp EXCEPT ![q] =
                              [code |-> 200, status |-> "", detail |-> ""]]
    /\ rpc' = [rpc EXCEPT ![q] = "done"]
    /\ UNCHANGED <<quantity, rowLock, orderVars, ledgerVars, menuVars, statusVars,
                   deskVars, rreq, avail>>

\* perform_create / perform_update: serializer.save(user=self.request.user),
\* which ends in Reservation.save: full_clean(), then the row is written
resv_save(q) ==
    /\ rpc[q] = "valid"
    /\ LET row == IF rreq[q].kind = "create"
                  THEN [Updated(rreq[q], rinst[q]) EXCEPT !.id = NewId]
                  ELSE Updated(rreq[q], rinst[q])
       IN IF clean(row) # ""
          THEN \* a django ValidationError, which the exception handler answers 500
               /\ rresp' = [rresp EXCEPT ![q] =
                              [code |-> 500, status |-> "", detail |-> clean(row)]]
               /\ UNCHANGED <<reservations, rinst>>
          ELSE /\ reservations' = {x \in reservations : x.id # row.id} \cup {row}
               /\ rinst' = [rinst EXCEPT ![q] = row]
               /\ rresp' = [rresp EXCEPT ![q] =
                              [code |-> IF rreq[q].kind = "create" THEN 201 ELSE 200,
                               status |-> "", detail |-> ""]]
    /\ rpc' = [rpc EXCEPT ![q] = "done"]
    /\ UNCHANGED <<quantity, rowLock, orderVars, ledgerVars, menuVars, statusVars,
                   deskVars,
                   rreq, avail>>

\* the response is sent and the handler takes the next request
resv_respond(q) ==
    /\ rpc[q] = "done"
    /\ rpc' = [rpc EXCEPT ![q] = "idle"]
    /\ rreq' = [rreq EXCEPT ![q] = NoRequest]
    /\ rinst' = [rinst EXCEPT ![q] = NoReservation]
    /\ rresp' = [rresp EXCEPT ![q] = NoResponse]
    /\ UNCHANGED <<quantity, rowLock, orderVars, ledgerVars, menuVars, statusVars,
                   deskVars,
                   reservations, avail>>

\* reservation requests handled one after the other
NextReservations ==
    \/ \E req \in ResvRequests : resv_validate("q1", req)
    \/ resv_save("q1")
    \/ resv_respond("q1")

SpecReservations == Init /\ [][NextReservations]_vars

\* the create and full-update requests of one customer
ConcurrentRequests ==
    {req \in ResvRequests : req.user = "guest" /\ req.kind \in {"create", "update"}}

\* two reservation requests handled at the same time, one by each handler
NextConcurrent ==
    \/ \E q \in ResvSlots, req \in ConcurrentRequests : resv_validate(q, req)
    \/ \E q \in ResvSlots : resv_save(q)

SpecConcurrent == Init /\ [][NextConcurrent]_vars

\* the Reservation rows that can have primary key id
Rows(id) ==
    {x \in [id : {id}, table : Tables, start_time : Times, end_time : Times,
            user : {"guest"}] : x.start_time < x.end_time}

\* check_table_availability called on any table of at most two reservations
InitAvailability ==
    /\ InitOrders
    /\ InitResvRequests
    /\ InitCallers
    /\ reservations \in
          {{}} \cup {{a} : a \in Rows(1)} \cup {{a, b} : a \in Rows(1), b \in Rows(2)}

NextAvailability ==
    \E t \in Tables, s \in Times, e \in Times, x \in {0} \cup ResvIds : check(t, s, e, x)

SpecAvailability == InitAvailability /\ [][NextAvailability]_vars

----------------------------------------------------------------------------
(* views.py, MenuItemViewSet; permissions.py, IsManager *)

\* the HTTP method of a MenuItemViewSet action
method(action) ==
    CASE action \in {"list", "retrieve"} -> "GET"
      [] action = "create" -> "POST"
      [] action = "update" -> "PUT"
      [] action = "partial_update" -> "PATCH"
      [] action = "destroy" -> "DELETE"

\* has_permission that asks for a logged-in user only
has_permission_authenticated(user, m) == m \in SAFE_METHODS \/ user # "anonymous"

\* IsManager.has_permission
has_permission(user, m) ==
    \/ m \in SAFE_METHODS
    \/ user # "anonymous" /\ user \in managers

\* MenuItemViewSet.get_permissions
get_permissions(action) ==
    IF action \in {"list", "retrieve"} THEN "AllowAny" ELSE "IsManager"

\* the permission check of the view lets the request through
permitted(user, action) ==
    \/ get_permissions(action) = "AllowAny"
    \/ has_permission(user, method(action))

\* MenuItemSerializer.validate_price: the error it raises, "" if none
validate_price(value) == IF value <= 0 THEN "Price must be greater than zero!" ELSE ""

\* the status code of a request on /menu/ or /menu/{item}/
menu_code(user, action, item, p) ==
    IF ~permitted(user, action)
    THEN \* JWTAuthentication sends a WWW-Authenticate header
         IF user = "anonymous" THEN 401 ELSE 403
    ELSE CASE action = "list" -> 200
           [] action = "retrieve" -> IF item \in DOMAIN prices THEN 200 ELSE 404
           [] action = "create" ->
                 IF validate_price(p) # "" \/ item \in DOMAIN prices THEN 400 ELSE 201
           [] action \in {"update", "partial_update"} ->
                 IF item \notin DOMAIN prices THEN 404
                 ELSE IF validate_price(p) # "" THEN 400 ELSE 200
           [] action = "destroy" -> IF item \in DOMAIN prices THEN 204 ELSE 404

\* a request on the menu; orders are placed on the MenuItems of the start, the
\* items managers delete are ones no order line refers to
menu_request(user, action, item, p) ==
    /\ action = "destroy" => item \in NewItems
    /\ LET code == menu_code(user, action, item, p)
       IN /\ mresp' = [user |-> user, action |-> action, item |-> item,
                       price |-> p, code |-> code]
          /\ prices' =
                CASE code = 201 -> (item :> p) @@ prices
                  [] code = 200 /\ action \in {"update", "partial_update"} ->
                        [prices EXCEPT ![item] = p]
                  [] code = 204 -> [i \in DOMAIN prices \ {item} |-> prices[i]]
                  [] OTHER -> prices
    /\ UNCHANGED <<quantity, rowLock, orderVars, ledgerVars, resvVars, statusVars,
                   deskVars>>

\* one placement of a one-line order and the manager's complete action, while
\* requests on the menu change the prices
NextMenu ==
    \/ \E line \in Line : Submit("r1", <<line>>)
    \/ NextPlacement
    \/ \E user \in Requesters, action \in MenuActions,
          item \in MenuTargets, p \in PriceInputs :
            menu_request(user, action, item, p)
    \/ \E o \in Requests : complete(o)

SpecMenu == Init /\ [][NextMenu]_vars

----------------------------------------------------------------------------
(* services.py, process_order, and models.py, Order.mark_status, called on a *)
(* persisted order outside perform_create, as tests/test_services.py does    *)

\* Order.objects.create(...) and OrderLine.objects.create(...) per line: the
\* order is persisted Pending with the default total and its lines (of distinct
\* menu items, unique_together); process_order(order) is then called on it
create_direct(r, payload) ==
    /\ pc[r] = "idle"
    /\ \A a, b \in 1..Len(payload) :
          a # b => payload[a].menu_item # payload[b].menu_item
    /\ LET row == [status |-> "PENDING", total_amount |-> 0, lines |-> payload]
       IN /\ orders' = [orders EXCEPT ![r] = row]
          /\ txOrder' = [txOrder EXCEPT ![r] = row]
    /\ lines' = [lines EXCEPT ![r] = payload]
    /\ caller' = [caller EXCEPT ![r] = "direct"]
    /\ pc' = [pc EXCEPT ![r] = "created"]
    /\ UNCHANGED <<quantity, rowLock, txWrites, k, err, response, fulfilled, pricedAt,
                   ledgerVars, restVars>>

\* process_order returns to its caller: its transaction commits the deductions
\* and the two fields mark_status and recalculate_total have saved
process_order_return(r) ==
    /\ pc[r] = "commit"
    /\ caller[r] = "direct"
    /\ quantity' = Committed(r)
    /\ orders' = [orders EXCEPT ![r] = save(@, txOrder[r], {"status", "total_amount"})]
    /\ rowLock' = Released(r)
    /\ txWrites' = [txWrites EXCEPT ![r] = << >>]
    /\ fulfilled' = fulfilled \cup {r}
    /\ pc' = [pc EXCEPT ![r] = "done"]
    /\ UNCHANGED <<lines, txOrder, k, err, response, pricedAt, caller,
                   ledgerVars, restVars>>

\* a process_order that marks the order Cancelled when it fails
process_order_fail_cancelled(r) ==
    /\ pc[r] = "raise"
    /\ caller[r] = "direct"
    /\ txWrites' = [txWrites EXCEPT ![r] = << >>]
    /\ rowLock' = Released(r)
    /\ txOrder' = [txOrder EXCEPT ![r] = mark_status(@, "CANCELLED")]
    /\ orders' = [orders EXCEPT ![r] = save(@, txOrder'[r], {"status"})]
    /\ pc' = [pc EXCEPT ![r] = "done"]
    /\ UNCHANGED <<quantity, lines, k, err, response, fulfilled, pricedAt, caller,
                   ledgerVars, restVars>>

\* the InventoryError leaves process_order and reaches its caller: the
\* transaction rolls back, which undoes the deductions and releases the locks;
\* the order instance and its row are as they were
process_order_fail(r) ==
    /\ pc[r] = "raise"
    /\ caller[r] = "direct"
    /\ txWrites' = [txWrites EXCEPT ![r] = rollback(r)]
    /\ rowLock' = Released(r)
    /\ pc' = [pc EXCEPT ![r] = "done"]
    /\ UNCHANGED <<quantity, orders, lines, txOrder, k, err, response, fulfilled,
                   pricedAt, caller, ledgerVars, restVars>>

\* Order.objects.get(pk=o) / get_object(): an instance of the persisted order
get_order(o) ==
    /\ orders[o].status # "ABSENT"
    /\ oinst' = [id |-> o, row |-> orders[o]]
    /\ ocall' = NoStatusCall
    /\ UNCHANGED <<quantity, rowLock, orderVars, ledgerVars, resvVars, menuVars,
                   deskVars>>

\* oinst.mark_status(status); save(update_fields=['status']) waits while an open
\* transaction has written the order's row
mark_status_call(status) ==
    /\ oinst.id # ""
    /\ pc[oinst.id] \notin {"recalc", "commit"}
    /\ ocall' = [status |-> status, error |-> mark_status_error(status)]
    /\ IF mark_status_error(status) = ""
       THEN /\ oinst' = [oinst EXCEPT !.row = mark_status(@, status)]
            /\ orders' = [orders EXCEPT ![oinst.id] = save(@, oinst'.row, {"status"})]
       ELSE UNCHANGED <<oinst, orders>>
    /\ UNCHANGED <<quantity, rowLock, pc, lines, txOrder, txWrites, k, err, response,
                   fulfilled, pricedAt, caller, ledgerVars, resvVars, menuVars,
                   deskVars>>

\* recalculate_total() that starts its sum from the total the instance holds
recalculate_total_call_added ==
    /\ oinst.id # ""
    /\ pc[oinst.id] \notin {"recalc", "commit"}
    /\ LET total == oinst.row.total_amount + recalculate_total(orders[oinst.id].lines)
       IN /\ tcall' = [id |-> oinst.id, total |-> total, prices |-> prices,
                       again |-> tcall.id = oinst.id /\ tcall.prices = prices]
          /\ oinst' = [oinst EXCEPT !.row.total_amount = total]
          /\ orders' = [orders EXCEPT ![oinst.id] =
                          save(@, oinst'.row, {"total_amount"})]
    /\ UNCHANGED <<quantity, rowLock, pc, lines, txOrder, txWrites, k, err, response,
                   fulfilled, pricedAt, caller, ledgerVars, resvVars, menuVars,
                   ocall, groupVars, oresp>>

\* oinst.recalculate_total(): sums line_total over the order's lines as the
\* database holds them, sets total_amount, save(update_fields=['total_amount']),
\* returns the total
recalculate_total_call ==
    /\ oinst.id # ""
    /\ pc[oinst.id] \notin {"recalc", "commit"}
    /\ LET total == recalculate_total(orders[oinst.id].lines)
       IN /\ tcall' = [id |-> oinst.id, total |-> total, prices |-> prices,
                       again |-> tcall.id = oinst.id /\ tcall.prices = prices]
          /\ oinst' = [oinst EXCEPT !.row.total_amount = total]
          /\ orders' = [orders EXCEPT ![oinst.id] =
                          save(@, oinst'.row, {"total_amount"})]
    /\ UNCHANGED <<quantity, rowLock, pc, lines, txOrder, txWrites, k, err, response,
                   fulfilled, pricedAt, caller, ledgerVars, resvVars, menuVars,
                   ocall, groupVars, oresp>>

\* recalculate_total called on instances of a persisted order while a manager
\* changes prices and completes the order
NextTotal ==
    \/ \E line \in Line : create_direct("r1", <<line>>)
    \/ \E o \in Requests : get_order(o)
    \/ recalculate_total_call
    \/ \E item \in MenuTargets, p \in PriceInputs :
          menu_request("manager", "partial_update", item, p)
    \/ \E o \in Requests : complete(o)

SpecTotal == Init /\ [][NextTotal]_vars

\* process_order called on a persisted order, and mark_status called on an
\* instance of it that may be older than the row
NextDirect ==
    \/ \E payload \in Payloads : create_direct("r1", payload)
    \/ \E r \in Requests : process_order_enter(r)
    \/ \E r \in Requests : process_line(r)
    \/ \E r \in Requests : process_order_mark(r)
    \/ \E r \in Requests : process_order_total(r)
    \/ \E r \in Requests : process_order_return(r)
    \/ \E r \in Requests : process_order_fail(r)
    \/ \E o \in Requests : get_order(o)
    \/ \E status \in StatusArgs : mark_status_call(status)

SpecDirect == Init /\ [][NextDirect]_vars

----------------------------------------------------------------------------
(* views.py, list_users, assign_manager, remove_manager, daily_sales_report, *)
(* stock_alerts_report                                                       *)

\* who sends requests on /managers/: nobody logged in, or any user
Callers == {"anonymous"} \cup AllUsers

\* rest_framework's IsAuthenticated
IsAuthenticated(user) == user # "anonymous"

\* @permission_classes([IsAuthenticated, IsManager]) on a request of method m
manager_permitted(user, m) == IsAuthenticated(user) /\ has_permission(user, m)

\* the status code of a request the permission check refuses
denied(user) == IF user = "anonymous" THEN 401 ELSE 403

\* user_set.set([user]) for user_set.add(user)
user_set_set(ms, user) == {user}

\* managers_group.user_set.add(user)
user_set_add(ms, user) == ms \cup {user}

\* managers_group.user_set.remove(user)
user_set_remove(ms, user) == ms \ {user}

\* GET /managers/users/, /managers/reports/daily-sales/ or
\* /managers/reports/stock-alerts/
read_request(user, endpoint) ==
    /\ mcall' = [user |-> user, endpoint |-> endpoint, target |-> "",
                 code |-> IF manager_permitted(user, "GET") THEN 200 ELSE denied(user),
                 before |-> managers]
    /\ UNCHANGED <<quantity, rowLock, orderVars, ledgerVars, resvVars, menuVars,
                   statusVars, managers, oresp, tcall>>

\* POST /managers/users/{target}/assign/
assign_manager(user, target) ==
    /\ LET code == IF ~manager_permitted(user, "POST") THEN denied(user)
                   ELSE IF target \notin AllUsers THEN 404 ELSE 200
       IN /\ mcall' = [user |-> user, endpoint |-> "assign_manager",
                       target |-> target, code |-> code, before |-> managers]
          /\ managers' = IF code = 200 /\ target \notin managers
                         THEN user_set_add(managers, target)
                         ELSE managers
    /\ UNCHANGED <<quantity, rowLock, orderVars, ledgerVars, resvVars, menuVars,
                   statusVars, oresp, tcall>>

\* POST /managers/users/{target}/remove/; the group exists, its caller is in it
remove_manager(user, target) ==
    /\ LET code == IF ~manager_permitted(user, "POST") THEN denied(user)
                   ELSE IF target \notin AllUsers THEN 404 ELSE 200
       IN /\ mcall' = [user |-> user, endpoint |-> "remove_manager",
                       target |-> target, code |-> code, before |-> managers]
          /\ managers' = IF code = 200 /\ target \in managers
                         THEN user_set_remove(managers, target)
                         ELSE managers
    /\ UNCHANGED <<quantity, rowLock, orderVars, ledgerVars, resvVars, menuVars,
                   statusVars, oresp, tcall>>

NextManagers ==
    \/ \E user \in Callers, endpoint \in ReadEndpoints : read_request(user, endpoint)
    \/ \E user \in Callers, target \in UserIds : assign_manager(user, target)
    \/ \E user \in Callers, target \in UserIds : remove_manager(user, target)

SpecManagers == Init /\ [][NextManagers]_vars

----------------------------------------------------------------------------
(* views.py, OrderViewSet: get_queryset and the actions on persisted orders *)

\* the persisted orders
Persisted == {o \in Requests : orders[o].status # "ABSENT"}

\* get_queryset without the filter on the user
get_queryset_all(user) == Persisted

\* OrderViewSet.get_queryset
get_queryset(user) ==
    IF user \in managers THEN Persisted ELSE {o \in Persisted : owner[o] = user}

\* the permission check of an OrderViewSet action: IsAuthenticated, and
\* IsManager on the POST actions complete and cancel
order_permitted(user, action) ==
    IF action \in {"complete", "cancel"}
    THEN has_permission(user, "POST")
    ELSE IsAuthenticated(user)

\* a request on /orders/ or /orders/{o}/...: list returns the queryset, the
\* others look the order up in it. PUT carries 'lines', a nested field
\* ModelSerializer.update refuses (AssertionError, 500); PATCH sets the table;
\* DELETE removes the order and its lines
order_request(user, action, o) ==
    /\ LET found == o \in get_queryset(user)
           code == IF ~order_permitted(user, action) THEN denied(user)
                   ELSE IF action = "list" THEN 200
                   ELSE IF ~found THEN 404
                   ELSE IF action = "update" THEN 500
                   ELSE IF action = "destroy" THEN 204
                   ELSE 200
           ok == code \in {200, 204}
       IN /\ oresp' = [user |-> user, action |-> action,
                       order |-> IF action = "list" THEN "" ELSE o,
                       code |-> code,
                       returned |-> IF ~ok THEN {}
                                    ELSE IF action = "list" THEN get_queryset(user)
                                    ELSE IF action \in {"retrieve", "partial_update"}
                                    THEN {o}
                                    ELSE {},
                       modified |-> IF ok /\ action \notin {"list", "retrieve"}
                                    THEN {o} ELSE {}]
          /\ orders' =
                IF ok /\ action = "destroy" THEN [orders EXCEPT ![o] = NoRow]
                ELSE IF ok /\ action = "complete"
                THEN [orders EXCEPT ![o] = mark_status(@, "COMPLETED")]
                ELSE IF ok /\ action = "cancel"
                THEN [orders EXCEPT ![o] = mark_status(@, "CANCELLED")]
                ELSE orders
    /\ UNCHANGED <<quantity, rowLock, pc, lines, txOrder, txWrites, k, err, response,
                   fulfilled, pricedAt, caller, ledgerVars, resvVars, menuVars,
                   statusVars, groupVars, tcall>>

\* persisted orders of two customers and the requests of every user on them
NextAccess ==
    \/ \E r \in Requests, line \in {x \in Line : x.menu_item = "banku"} :
          create_direct(r, <<line>>)
    \/ \E user \in Callers, action \in OrderActions, o \in Requests :
          order_request(user, action, o)

SpecAccess == Init /\ [][NextAccess]_vars

----------------------------------------------------------------------------
(* Helpers of the properties *)

\* r is between the start of its transaction and its response
InFlight(r) == pc[r] \notin {"idle", "done"}

\* the quantity of item i that order o asks for
Ordered(o, i) ==
    SumSeq([j \in 1..Len(lines[o]) |->
              IF lines[o][j].menu_item = i THEN lines[o][j].quantity ELSE 0])

RECURSIVE SumOrdered(_, _)
SumOrdered(S, i) ==
    IF S = {} THEN 0
    ELSE LET o == CHOOSE x \in S : TRUE
         IN Ordered(o, i) + SumOrdered(S \ {o}, i)

\* every committed quantity is the initial one less what the committed
\* fulfillments took
Accounted == \A i \in Stocked : quantity[i] = InitStock[i] - SumOrdered(fulfilled, i)

\* sum over the lines ls of menu item price times quantity
ExpectedTotal(ls) ==
    SumSeq([j \in 1..Len(ls) |-> price[ls[j].menu_item] * ls[j].quantity])

OneSalad == <<[menu_item |-> "salad", quantity |-> 1]>>

----------------------------------------------------------------------------
(* C1: with one salad in stock and two placements that each ask for one    *)
(* salad, once both requests have answered exactly one of them succeeded   *)
(* with its order Processing, the other failed with insufficient stock and *)
(* its order is persisted as Cancelled, and no salad is left.              *)
C1_LastPortion ==
    (/\ \A r \in Requests : pc[r] = "done" /\ lines[r] = OneSalad)
    => \E w, l \in Requests :
          /\ w # l
          /\ response[w].code = 201
          /\ response[w].status = "PROCESSING"
          /\ w \in fulfilled
          /\ response[l].code = 400
          /\ err[l] = "InsufficientStock"
          /\ orders[l].status = "CANCELLED"
          /\ quantity["salad"] = 0

(* C2: when the fulfillment of a newly placed order failed, then once the  *)
(* request has answered the order is persisted with status Cancelled, the  *)
(* stock is what the committed fulfillments left, and the error is         *)
(* reported to the caller.                                                 *)
C2_CancelledSurvivesRollback ==
    \A r \in Requests :
        (pc[r] = "done" /\ err[r] # "")
        => /\ orders[r].status = "CANCELLED"
           /\ response[r].code = 400
           /\ response[r].detail = err[r]
           /\ r \notin fulfilled
           /\ (\A q \in Requests : ~InFlight(q)) => Accounted

(* C3: when process_order fails at line k, every earlier line had been     *)
(* deducted inside the transaction, and the rollback gives each line's     *)
(* stock entry back the quantity it had before the fulfillment; no step of *)
(* the failing request changes a committed quantity.                       *)
C3_FullRollback ==
    [][\A r \in Requests :
         /\ (pc[r] = "raise" /\ pc'[r] = "except")
            => /\ \A j \in 1..(k[r] - 1) :
                    LET i == lines[r][j].menu_item
                    IN /\ Visible(r, i) = quantity[i] - lines[r][j].quantity
                       /\ Visible(r, i)' = quantity[i]
               /\ txWrites'[r] = << >>
         /\ (pc[r] \in {"raise", "except", "reraise"} /\ pc'[r] # pc[r])
            => quantity' = quantity
      ]_vars

\* a request failed at its second line, after the first was deducted, and has
\* rolled back
C3_Witness ==
    \E r \in Requests :
        /\ pc[r] = "except"
        /\ k[r] = 2
        /\ err[r] = "InsufficientStock"
        /\ txWrites[r] = << >>

C5_NoCircularWait ==
    ~ \E a, b \in Requests :
         /\ a # b
         /\ Waiting(a) /\ Blocker(a) = b
         /\ Waiting(b) /\ Blocker(b) = a

(* C6: once an order's persisted status is Completed or Cancelled, no      *)
(* later operation changes it.                                             *)
C6_TerminalStatus ==
    [][\A o \in Requests :
         orders[o].status \in {"COMPLETED", "CANCELLED"}
         => orders'[o].status = orders[o].status
      ]_vars

(* C7: process_order fails only on an order without lines, on a line       *)
(* without inventory record or on a line that asks for more than the       *)
(* record holds; otherwise the transaction commits, and the commit reduces *)
(* each referenced stock entry by exactly its line's quantity, persists    *)
(* the order as Processing with total_amount the sum of price times        *)
(* quantity over its lines, and answers 201 with status PROCESSING.        *)
C7_Fulfilled ==
    [][\A r \in Requests :
         /\ (pc[r] = "commit" /\ pc'[r] = "done")
            => /\ \A i \in Stocked : quantity'[i] = quantity[i] - Ordered(r, i)
               /\ orders'[r].status = "PROCESSING"
               /\ orders'[r].lines = lines[r]
               /\ orders'[r].total_amount = ExpectedTotal(lines[r])
               /\ response'[r].code = 201
               /\ response'[r].status = "PROCESSING"
         /\ (pc[r] = "loop" /\ pc'[r] = "raise")
            => LET line == lines[r][k[r]]
               IN \/ line.menu_item \notin Stocked
                  \/ quantity[line.menu_item] < line.quantity
         /\ (pc[r] = "created" /\ pc'[r] = "raise") => lines[r] = <<>>
      ]_vars

\* an order of two banku and one salad has been fulfilled
C7_Witness ==
    \E r \in Requests :
        /\ response[r].code = 201
        /\ lines[r] = <<[menu_item |-> "banku", quantity |-> 2],
                        [menu_item |-> "salad", quantity |-> 1]>>
        /\ quantity = [i \in Stocked |-> 0]

(* C8: in every state where no fulfillment transaction is in flight, each  *)
(* item's quantity is its initial quantity less the sum of the line        *)
(* quantities for that item over the orders whose fulfillment committed,   *)
(* and it is not negative.                                                 *)
C8_NoLostUpdate ==
    (\A r \in Requests : ~InFlight(r))
    => /\ Accounted
       /\ \A i \in Stocked : quantity[i] >= 0

\* two orders of one banku each have both been fulfilled
C8_Witness ==
    /\ fulfilled = Requests
    /\ \A r \in Requests :
          pc[r] = "done" /\ lines[r] = <<[menu_item |-> "banku", quantity |-> 1]>>
    /\ quantity["banku"] = 0

(* C9: decrease(amount) raises the invalid-amount error when amount <= 0   *)
(* and the insufficient-stock error when amount > quantity, and leaves the *)
(* quantity unchanged in both cases; otherwise the instance and its row    *)
(* hold quantity - amount.                                                 *)
C9_Decrease ==
    [][\A amount \in Amounts :
         decrease_call(amount)
         => IF amount <= 0
            THEN call'.error = "InvalidAmount" /\ inst' = inst /\ quantity' = quantity
            ELSE IF amount > inst.quantity
            THEN call'.error = "InsufficientStock" /\ inst' = inst
                 /\ quantity' = quantity
            ELSE /\ call'.error = ""
                 /\ inst'.quantity = inst.quantity - amount
                 /\ quantity'[inst.menu_item] = inst.quantity - amount
      ]_vars

\* a decrease() call has taken stock
C9_Witness ==
    /\ call = [op |-> "decrease", error |-> ""]
    /\ inst.quantity < InitStock[inst.menu_item]

(* C10: increase(amount) raises the invalid-amount error when amount <= 0  *)
(* and leaves the quantity unchanged; otherwise the instance and its row   *)
(* hold quantity + amount.                                                 *)
C10_Increase ==
    [][\A amount \in Amounts :
         increase_call(amount)
         => IF amount <= 0
            THEN call'.error = "InvalidAmount" /\ inst' = inst /\ quantity' = quantity
            ELSE /\ call'.error = ""
                 /\ inst'.quantity = inst.quantity + amount
                 /\ quantity'[inst.menu_item] = inst.quantity + amount
      ]_vars

\* an increase() call has added stock
C10_Witness ==
    /\ call = [op |-> "increase", error |-> ""]
    /\ inst.quantity > InitStock[inst.menu_item]

----------------------------------------------------------------------------
(* Reservations *)

\* the half-open intervals [s1, e1) and [s2, e2) intersect
Intersect(s1, e1, s2, e2) == s1 < e2 /\ e1 > s2

(* C11: check_table_availability(table, start, end, exclude) returns false *)
(* if and only if some persisted reservation for that table, other than    *)
(* the excluded one, has start < end-argument and end > start-argument; a  *)
(* slot that only touches an existing reservation is available.            *)
C11_Availability ==
    avail.called
    => /\ avail.result = FALSE
          <=> \E x \in reservations :
                 /\ x.table = avail.table
                 /\ x.id # avail.exclude
                 /\ x.start_time < avail.end_time
                 /\ x.end_time > avail.start_time
       /\ (\A x \in reservations :
              x.table = avail.table
              => x.end_time <= avail.start_time \/ avail.end_time <= x.start_time)
          => avail.result = TRUE

\* a slot that starts exactly when a reservation of the table ends was found
\* available
C11_Witness ==
    /\ avail.called
    /\ avail.result = TRUE
    /\ avail.start_time < avail.end_time
    /\ \E x \in reservations :
          x.table = avail.table /\ x.end_time = avail.start_time

(* C12: after any sequence of reservation requests handled one after the   *)
(* other, no two persisted reservations for the same table intersect.      *)
C12_NoOverlap ==
    \A x, y \in reservations :
        (x.id # y.id /\ x.table = y.table)
        => ~Intersect(x.start_time, x.end_time, y.start_time, y.end_time)

(* C13: a create request with start_time before end_time on a table with   *)
(* no intersecting reservation is answered 201 and persists a reservation  *)
(* for that slot bound to the requesting user.                             *)
C13_CreateAccepted ==
    \A q \in ResvSlots :
        (/\ rpc[q] = "done"
         /\ rreq[q].kind = "create"
         /\ rreq[q].start_time < rreq[q].end_time
         /\ \A x \in reservations :
               (x.table = rreq[q].table /\ x.id # rinst[q].id)
               => ~Intersect(x.start_time, x.end_time,
                             rreq[q].start_time, rreq[q].end_time))
        => /\ rresp[q].code = 201
           /\ \E x \in reservations :
                 /\ x.table = rreq[q].table
                 /\ x.start_time = rreq[q].start_time
                 /\ x.end_time = rreq[q].end_time
                 /\ x.user = rreq[q].user

----------------------------------------------------------------------------
(* Orders and the menu *)

\* the sum over the lines ls of quantity times the price in the price list at
PricedTotal(ls, at) ==
    SumSeq([j \in 1..Len(ls) |-> at[ls[j].menu_item] * ls[j].quantity])

(* C14: every persisted order whose status is Processing or Completed has  *)
(* had its total recalculated, and its stored total_amount is the sum over *)
(* its lines of quantity times the price the menu item had when the total  *)
(* was last recalculated, whatever the prices have become since.           *)
C14_TotalAsRecalculated ==
    \A o \in Requests :
        orders[o].status \in {"PROCESSING", "COMPLETED"}
        => /\ pricedAt[o] # NotPriced
           /\ orders[o].total_amount = PricedTotal(orders[o].lines, pricedAt[o])

\* a completed order whose total was recalculated at a price that is not the
\* one the item started with
C14_Witness ==
    \E o \in Requests :
        /\ orders[o].status = "COMPLETED"
        /\ orders[o].total_amount # ExpectedTotal(orders[o].lines)
        /\ orders[o].total_amount = PricedTotal(orders[o].lines, prices)

(* C17: a list or retrieve request on the menu is never refused for lack   *)
(* of permission, whoever sends it, and changes nothing; a create, update  *)
(* or delete request passes the permission check exactly when its sender   *)
(* is logged in and in Managers: a customer gets 403 and an anonymous      *)
(* sender is refused too, both without any change of the menu, and a       *)
(* manager's valid create gets 201 and adds the item at its price.         *)
C17_MenuPermissions ==
    [][mresp' # mresp
       => LET q == mresp'
          IN IF q.action \in {"list", "retrieve"}
             THEN q.code \notin {401, 403} /\ prices' = prices
             ELSE IF q.user # "anonymous" /\ q.user \in Managers
             THEN /\ q.code \notin {401, 403}
                  /\ (q.action = "create" /\ q.price > 0 /\ q.item \notin DOMAIN prices)
                     => (q.code = 201 /\ prices' = (q.item :> q.price) @@ prices)
                  /\ (q.action \in {"update", "partial_update"} /\ q.price > 0
                        /\ q.item \in DOMAIN prices)
                     => (q.code = 200 /\ prices' = [prices EXCEPT ![q.item] = q.price])
                  /\ (q.action = "destroy" /\ q.item \in DOMAIN prices)
                     => (q.code = 204 /\ q.item \notin DOMAIN prices')
             ELSE /\ q.code \in {401, 403}
                  /\ q.user = "guest" => q.code = 403
                  /\ prices' = prices
      ]_vars

\* a customer's create was refused and a manager's create then added the item
C17_Witness ==
    /\ mresp.user = "manager" /\ mresp.action = "create" /\ mresp.code = 201
    /\ mresp.item \in DOMAIN prices
    /\ mresp.item \notin MenuItems

(* C15: an order produced by the creation path has status Pending and at  *)
(* least one line, and its total_amount is 0 at every point before         *)
(* recalculate_total() is first called on it.                              *)
C15_ZeroUntilRecalculated ==
    \A r \in Requests :
        (InFlight(r) /\ pricedAt[r] = NotPriced)
        => /\ Len(txOrder[r].lines) >= 1
           /\ pc[r] = "created" => txOrder[r].status = "PENDING"
           /\ txOrder[r].total_amount = 0

(* C15, amended: an order produced by the creation path has status Pending *)
(* and at least one line, and from its creation to the first call of       *)
(* recalculate_total() its total_amount is the sum over its lines of menu  *)
(* item price times quantity, which create() has stored.                   *)
C15_CreatedWithTotal ==
    \A r \in Requests :
        (InFlight(r) /\ pricedAt[r] = NotPriced)
        => /\ Len(txOrder[r].lines) >= 1
           /\ pc[r] = "created" => txOrder[r].status = "PENDING"
           /\ txOrder[r].total_amount = ExpectedTotal(txOrder[r].lines)
           /\ txOrder[r].total_amount > 0

\* a two-line order has just been created
C15_Witness ==
    \E r \in Requests :
        /\ pc[r] = "created"
        /\ Len(txOrder[r].lines) = 2
        /\ txOrder[r].status = "PENDING"
        /\ txOrder[r].total_amount = ExpectedTotal(lines[r])

----------------------------------------------------------------------------
(* mark_status and process_order on a persisted order *)

(* C16: mark_status(status) raises the invalid-status error and leaves the *)
(* instance and every persisted order unchanged when status is not one of  *)
(* the four Order.Status values; otherwise it sets the status of the       *)
(* instance and of its row and writes nothing else: the row keeps its      *)
(* total_amount and lines even when the instance holds older values, and   *)
(* the other orders and the stock are unchanged.                           *)
C16_MarkStatus ==
    [][\A status \in StatusArgs :
         mark_status_call(status)
         => IF status \notin {"PENDING", "PROCESSING", "COMPLETED", "CANCELLED"}
            THEN /\ ocall'.error = "ValueError"
                 /\ oinst' = oinst
                 /\ orders' = orders
            ELSE /\ ocall'.error = ""
                 /\ oinst'.row.status = status
                 /\ orders'[oinst.id].status = status
                 /\ orders'[oinst.id].total_amount = orders[oinst.id].total_amount
                 /\ orders'[oinst.id].lines = orders[oinst.id].lines
                 /\ \A o \in Requests \ {oinst.id} : orders'[o] = orders[o]
                 /\ quantity' = quantity
      ]_vars

\* mark_status was called on an instance loaded before the order's total was
\* recalculated, and the row kept the recalculated total
C16_Witness ==
    /\ ocall = [status |-> "COMPLETED", error |-> ""]
    /\ orders[oinst.id].status = "COMPLETED"
    /\ oinst.row.total_amount = 0
    /\ orders[oinst.id].total_amount > 0

(* C18: when process_order, called on a persisted order, fails (no lines,  *)
(* a line without inventory record, a line that asks for more than the     *)
(* stock), the step that raises the error leaves every persisted order,    *)
(* the status of the order instance (Pending) and every committed quantity *)
(* unchanged and discards the deductions made so far; no earlier step of   *)
(* the call has written a persisted order or a committed quantity.         *)
C18_FailureChangesNothing ==
    [][\A r \in Requests :
         /\ (caller[r] = "direct" /\ pc[r] = "raise" /\ pc'[r] = "done")
            => /\ err[r] \in {"EmptyOrder", "MissingInventoryRecord", "InsufficientStock"}
               /\ orders' = orders
               /\ txOrder'[r].status = "PENDING"
               /\ quantity' = quantity
               /\ txWrites'[r] = << >>
               /\ \A i \in Stocked : rowLock'[i] # r
         /\ (caller[r] = "direct" /\ pc[r] \in {"created", "loop"} /\ pc'[r] # pc[r])
            => /\ orders' = orders
               /\ quantity' = quantity
      ]_vars

\* process_order failed on the second line of a persisted order after it had
\* deducted the first: the order is still Pending and the stock is untouched
C18_Witness ==
    \E r \in Requests :
        /\ caller[r] = "direct"
        /\ pc[r] = "done"
        /\ err[r] = "InsufficientStock"
        /\ k[r] = 2
        /\ orders[r].status = "PENDING"
        /\ quantity = InitStock

----------------------------------------------------------------------------
(* The steps of a fulfillment and the manager actions *)

(* C19: in a successful fulfillment all lines are locked, validated and    *)
(* deducted, then recalculate_total() is called, then                      *)
(* mark_status(Processing), then the transaction commits: no order has     *)
(* status Processing before its total has been recalculated.               *)
C19_TotalThenStatus ==
    \A r \in Requests :
        (InFlight(r) /\ txOrder[r].status = "PROCESSING") => pricedAt[r] # NotPriced

(* C19, amended: in a successful fulfillment all lines are locked,         *)
(* validated and deducted, then mark_status(Processing) is called, then    *)
(* recalculate_total(), then the transaction commits; both writes are made *)
(* inside the transaction, so no persisted order is Processing before its  *)
(* total has been recalculated.                                            *)
C19_StatusThenTotal ==
    [][\A r \in Requests :
         /\ (txOrder[r].status # "PROCESSING" /\ txOrder'[r].status = "PROCESSING")
            => /\ k[r] = Len(lines[r]) + 1
               /\ \A i \in Stocked : Visible(r, i) = quantity[i] - Ordered(r, i)
               /\ pricedAt[r] = NotPriced /\ pricedAt'[r] = NotPriced
               /\ orders[r] = NoRow /\ orders'[r] = NoRow
         /\ (pricedAt[r] = NotPriced /\ pricedAt'[r] # NotPriced)
            => /\ txOrder[r].status = "PROCESSING"
               /\ txOrder'[r].total_amount = ExpectedTotal(lines[r])
               /\ orders'[r] = NoRow
         /\ (orders[r] = NoRow /\ orders'[r] # NoRow)
            => /\ pricedAt[r] # NotPriced
               /\ orders'[r].status = "PROCESSING"
               /\ orders'[r].total_amount = ExpectedTotal(lines[r])
      ]_vars

\* a two-line order is marked Processing and its total recalculated, in that
\* order, and the transaction is about to commit
C19_Witness ==
    \E r \in Requests :
        /\ pc[r] = "commit"
        /\ Len(lines[r]) = 2
        /\ txOrder[r].status = "PROCESSING"
        /\ pricedAt[r] # NotPriced
        /\ orders[r] = NoRow

(* C20: a complete or cancel action changes only the status of its order:  *)
(* the order's total_amount and lines, every other order and every stock   *)
(* quantity, committed or written in an open transaction, stay as they     *)
(* are, so cancelling a Processing order returns nothing to the stock; and *)
(* a committed quantity changes only in the step that commits the          *)
(* fulfillment of an order not fulfilled before, by that order's lines.    *)
C20_ManagerActionsFrame ==
    [][/\ \A o \in Requests :
            (complete(o) \/ cancel(o))
            => /\ quantity' = quantity
               /\ txWrites' = txWrites
               /\ fulfilled' = fulfilled
               /\ orders'[o].total_amount = orders[o].total_amount
               /\ orders'[o].lines = orders[o].lines
               /\ \A other \in Requests \ {o} : orders'[other] = orders[other]
       /\ quantity' # quantity
          => \E r \in Requests \ fulfilled :
                /\ fulfilled' = fulfilled \cup {r}
                /\ \A i \in Stocked : quantity'[i] = quantity[i] - Ordered(r, i)
      ]_vars

\* a fulfilled order of two banku was cancelled and the two banku are still
\* out of the stock
C20_Witness ==
    \E o \in Requests :
        /\ orders[o].status = "CANCELLED"
        /\ o \in fulfilled
        /\ Ordered(o, "banku") = 2
        /\ quantity["banku"] = 0

----------------------------------------------------------------------------
(* The manager endpoints *)

(* C21: list_users, daily_sales_report and stock_alerts_report answer 403  *)
(* to every authenticated requester who is not in Managers: only members   *)
(* of Managers get 200 and the data.                                       *)
C21_ReadsManagerOnly ==
    mcall.endpoint \in ReadEndpoints
    => /\ (mcall.user # "anonymous" /\ mcall.user \notin mcall.before)
          => mcall.code = 403
       /\ mcall.code = 200 => mcall.user \in mcall.before

(* C24: assign_manager called by a manager on an existing user leaves that *)
(* user in Managers and adds nobody else, and changes nothing when the     *)
(* user is a member already; remove_manager on a non-member changes        *)
(* nothing; and remove_manager called right after a manager's              *)
(* assign_manager of the same user, who was no member, gives back the      *)
(* membership there was before the two calls.                              *)
C24_Membership ==
    [][\A user \in Callers, target \in UserIds :
         /\ assign_manager(user, target)
            => IF user \in managers /\ target \in AllUsers
               THEN /\ mcall'.code = 200
                    /\ target \in managers'
                    /\ managers' = managers \cup {target}
                    /\ target \in managers => managers' = managers
               ELSE managers' = managers
         /\ remove_manager(user, target)
            => /\ target \notin managers => managers' = managers
               /\ (user \in managers /\ target \in AllUsers)
                  => (mcall'.code = 200 /\ managers' = managers \ {target})
               /\ (/\ user \in managers
                   /\ mcall.endpoint = "assign_manager"
                   /\ mcall.code = 200
                   /\ mcall.target = target
                   /\ target \notin mcall.before)
                  => managers' = mcall.before
      ]_vars

\* the customer was made a manager and removed again: the group is as at the
\* start
C24_Witness ==
    /\ mcall.endpoint = "remove_manager"
    /\ mcall.code = 200
    /\ mcall.target = "guest"
    /\ mcall.before = Managers \cup {"guest"}
    /\ managers = Managers

(* C22: no request on an order endpoint sent by a user outside Managers    *)
(* returns or modifies an order of another user, whatever the action: the  *)
(* list of such a user is exactly that user's persisted orders; the list   *)
(* of a manager is every persisted order.                                  *)
C22_OwnOrdersOnly ==
    [][oresp' # oresp
       => LET user == oresp'.user
              action == oresp'.action
          IN IF user \in managers
             THEN action = "list" => oresp'.returned = Persisted
             ELSE /\ \A x \in Requests :
                       owner[x] # user
                       => /\ x \notin oresp'.returned
                          /\ x \notin oresp'.modified
                          /\ orders'[x] = orders[x]
                  /\ (action = "list" /\ user # "anonymous")
                     => oresp'.returned = {x \in Persisted : owner[x] = user}
      ]_vars

\* with an order of each customer persisted, one customer's list held only
\* that customer's order
C22_Witness ==
    /\ Persisted = Requests
    /\ oresp.user = "guest"
    /\ oresp.action = "list"
    /\ oresp.code = 200
    /\ oresp.returned = {"r1"}

----------------------------------------------------------------------------
(* Concurrent reservation requests *)

(* C23: the availability check takes no lock. A request passes validation  *)
(* on the rows committed at that moment, whatever another request has      *)
(* validated and not yet saved, and its save writes the row without        *)
(* looking at the table again; so two requests for intersecting slots on   *)
(* one table can both pass the check before either commits, and both       *)
(* reservations are then persisted.                                        *)
C23_CheckThenAct ==
    [][\A q \in ResvSlots :
         /\ (rpc[q] = "idle" /\ rpc'[q] = "valid")
            => check_table_availability(rreq'[q].table, rreq'[q].start_time,
                                        rreq'[q].end_time, rinst'[q].id)
         /\ (rpc[q] = "valid" /\ rpc'[q] = "done")
            => /\ rresp'[q].code = 200
               /\ Updated(rreq[q], rinst[q]) \in reservations'
      ]_vars

\* both requests have been answered 200 and the two reservations they asked
\* for, on the same table and intersecting, are both persisted
C23_Witness ==
    /\ \A q \in ResvSlots : rpc[q] = "done" /\ rresp[q].code = 200
    /\ rreq["q1"].id # rreq["q2"].id
    /\ rreq["q1"].table = rreq["q2"].table
    /\ Intersect(rreq["q1"].start_time, rreq["q1"].end_time,
                 rreq["q2"].start_time, rreq["q2"].end_time)
    /\ \A q \in ResvSlots : Updated(rreq[q], rinst[q]) \in reservations

----------------------------------------------------------------------------
(* recalculate_total on a persisted order *)

(* C25: recalculate_total() returns the sum over the order's lines of      *)
(* quantity times current price and stores it in the order's row, whose    *)
(* status, lines and every other order it leaves as they are, even when    *)
(* the instance holds an older status; a call that follows a call on the   *)
(* same order with no price changed in between returns the same total and  *)
(* leaves every persisted order as the first call left it.                 *)
C25_RecalculateIdempotent ==
    [][recalculate_total_call
       => /\ tcall'.total = PricedTotal(orders[oinst.id].lines, prices)
          /\ orders'[oinst.id].total_amount = tcall'.total
          /\ orders'[oinst.id].status = orders[oinst.id].status
          /\ orders'[oinst.id].lines = orders[oinst.id].lines
          /\ \A o \in Requests \ {oinst.id} : orders'[o] = orders[o]
          /\ (tcall.id = oinst.id /\ tcall.prices = prices)
             => (tcall'.total = tcall.total /\ orders' = orders)
      ]_vars

\* recalculate_total was called twice in a row on an instance loaded before
\* the order was completed: the total is stored and the order is still
\* Completed
C25_Witness ==
    /\ tcall.again
    /\ tcall.total > 0
    /\ orders[tcall.id].total_amount = tcall.total
    /\ orders[tcall.id].status = "COMPLETED"
    /\ oinst.row.status = "PENDING"

====
